---- MODULE Spec2Model ----
(***************************************************************************)
(* Serial AMR stencil kernel (SERIAL/AMR/amr.c).                           *)
(*                                                                         *)
(* DTYPE values are modelled in exact rational arithmetic, as integers     *)
(* over a fixed denominator per buffer:                                    *)
(*   in            : value * 1                                             *)
(*   inr           : value * expand^2      (hr = 1/expand, two passes)     *)
(*   weight        : value * WDen(RADIUS)                                  *)
(*   weight_r      : value * WDen(RADIUS)                                  *)
(*   out           : value * WDen(RADIUS)                                  *)
(*   outr          : value * WDen(RADIUS) * expand^2                       *)
(*   norm          : value * WDen(RADIUS) * f_active_points                *)
(*   norm_r        : value * WDen(RADIUS) * expand^2 * f_active_points_r   *)
(* The floating-point error a build accumulates on top of the exact value  *)
(* is the input roundoff (0 = exact arithmetic), added to the norms.       *)
(***************************************************************************)
EXTENDS Integers, Sequences, FiniteSets, TLC

VARIABLES
  pc,                 \* position in main
  cfg,                \* argc/argv and the build flags RADIUS, STAR
  roundoff,           \* accumulated floating-point error of the norms
  expand, nr_true, tiling, tile_size,
  allocated,          \* the grid buffers have been reserved
  weight, weight_r, stencil_size,
  in, out, inr, outr,
  out_untiled, outr_untiled,  \* out/outr of the same run with tiling off
  rstarti, rstartj,
  iter, g, num_interpolations,
  napplied,           \* stencil passes each refinement has received
  ntimed,             \* those of them received while the timer runs (iter >= 1)
  norm, norm_r, reference_norm, reference_norm_r, iterations_r,
  validate, flops, status,
  printed             \* what the run has written to the console, in order

vars == <<pc, cfg, roundoff, expand, nr_true, tiling, tile_size, allocated,
          weight, weight_r, stencil_size, in, out, inr, outr,
          out_untiled, outr_untiled, rstarti, rstartj, iter, g,
          num_interpolations, napplied, ntimed, norm, norm_r, reference_norm,
          reference_norm_r, iterations_r, validate, flops, status,
          printed>>

(***************************************************************************)
(* Bounds of the model.                                                    *)
(***************************************************************************)
MaxIterations == 8
MaxN          == 5
MaxLevel      == 1
MaxPeriod     == 2
MaxSub        == 2
MaxRadius     == 2
MaxCoef       == 1      \* field coefficients a, b, c range over -MaxCoef..MaxCoef
MaxInterpN    == 4      \* background sides of the interpolation inputs
MaxVal        == 1      \* background values of the interpolation inputs
MaxRoundoff   == 1      \* floating-point error of a norm, in units of its denominator

(***************************************************************************)
(* Program constants.                                                      *)
(***************************************************************************)
COEFX      == 1
COEFY      == 1
EPSILONINV == 100000000   \* 1/EPSILON, EPSILON = 1.e-8

MIN(a, b) == IF a < b THEN a ELSE b
MAX(a, b) == IF a > b THEN a ELSE b
ABS(a)    == IF a < 0 THEN 0 - a ELSE a

Corners == 0 .. 3
Uninit  == "uninit"       \* content of memory never assigned

RECURSIVE Sum(_, _, _)
\* f[lo] + ... + f[hi], in loop order
Sum(f, lo, hi) == IF lo > hi THEN 0 ELSE f[lo] + Sum(f, lo + 1, hi)

RECURSIVE Factorial(_)
Factorial(k) == IF k <= 1 THEN 1 ELSE k * Factorial(k - 1)

RECURSIVE Pow2(_)
\* the loop "for (l=0; l<r_level; l++) expand *= 2"
Pow2(l) == IF l <= 0 THEN 1 ELSE 2 * Pow2(l - 1)

\* common denominator of every entry of the weight table of radius R
WDen(R) == 4 * R * Factorial(2 * R)


(***************************************************************************)
(* Weight tables, lines 285-316.  WEIGHT(ii,jj) is weight[<<ii,jj>>].      *)
(***************************************************************************)
Offsets(R) == (0 - R) .. R

ZeroWeights(R) == [p \in Offsets(R) \X Offsets(R) |-> 0]

RECURSIVE StarLoopFlat(_, _, _)
\* mutant of StarLoop: the weight is 1/(2*RADIUS) at every distance
StarLoopFlat(w, ii, R) ==
  IF ii > R THEN w
  ELSE LET v == WDen(R) \div (2 * R)
       IN  StarLoopFlat([w EXCEPT ![<<0, ii>>] = v,      ![<<ii, 0>>] = v,
                                  ![<<0, 0 - ii>>] = 0 - v, ![<<0 - ii, 0>>] = 0 - v],
                        ii + 1, R)

RECURSIVE StarLoopUnsigned(_, _, _)
\* mutant of StarLoop: the weights at negative offsets keep the positive sign
StarLoopUnsigned(w, ii, R) ==
  IF ii > R THEN w
  ELSE LET v == WDen(R) \div (2 * ii * R)
       IN  StarLoopUnsigned([w EXCEPT ![<<0, ii>>] = v,     ![<<ii, 0>>] = v,
                                      ![<<0, 0 - ii>>] = v, ![<<0 - ii, 0>>] = v],
                            ii + 1, R)

RECURSIVE StarLoop(_, _, _)
\* for (ii=1; ii<=RADIUS; ii++) { WEIGHT(0,ii) = WEIGHT(ii,0) = ...; ... }
StarLoop(w, ii, R) ==
  IF ii > R THEN w
  ELSE LET v == WDen(R) \div (2 * ii * R)
       IN  StarLoop([w EXCEPT ![<<0, ii>>] = v,      ![<<ii, 0>>] = v,
                              ![<<0, 0 - ii>>] = 0 - v, ![<<0 - ii, 0>>] = 0 - v],
                    ii + 1, R)

RECURSIVE CompactInner(_, _, _, _)
\* for (ii=-jj+1; ii<jj; ii++) { four sides of ring jj }
CompactInner(w, ii, jj, R) ==
  IF ii >= jj THEN w
  ELSE LET v == WDen(R) \div (4 * jj * (2 * jj - 1) * R)
       IN  CompactInner([w EXCEPT ![<<ii, jj>>] = v,     ![<<ii, 0 - jj>>] = 0 - v,
                                  ![<<jj, ii>>] = v,     ![<<0 - jj, ii>>] = 0 - v],
                        ii + 1, jj, R)

RECURSIVE CompactLoop(_, _, _)
\* for (jj=1; jj<=RADIUS; jj++) { inner loop; the two diagonal corners }
CompactLoop(w, jj, R) ==
  IF jj > R THEN w
  ELSE LET w1 == CompactInner(w, 1 - jj, jj, R)
           d  == WDen(R) \div (4 * jj * R)
       IN  CompactLoop([w1 EXCEPT ![<<jj, jj>>] = d, ![<<0 - jj, 0 - jj>>] = 0 - d],
                       jj + 1, R)

Weights(R, star) ==
  IF star THEN StarLoop(ZeroWeights(R), 1, R) ELSE CompactLoop(ZeroWeights(R), 1, R)

StencilSize(R, star) == IF star THEN 4 * R + 1 ELSE (2 * R + 1) * (2 * R + 1)

\* WEIGHTR(ii,jj) = WEIGHT(ii,jj)*(DTYPE)expand
ScaledWeights(w, e) == [p \in DOMAIN w |-> w[p] * e]

(***************************************************************************)
(* Indexing macros, lines 82-86, on flat buffers.                          *)
(***************************************************************************)
Cells(S) == 0 .. (S * S - 1)

Idx(i, j, S) == i + j * S

\* inr[g] = inr[g-1] + nr_true*nr_true, lines 280-283
PatchBase(gg, nrt) == gg * nrt * nrt

\* the patch gg of a refinement buffer, as a buffer of its own
Patch(buf, gg, nrt) == [k \in Cells(nrt) |-> buf[PatchBase(gg, nrt) + k]]

\* a refinement buffer with patch gg replaced
WithPatch(buf, gg, nrt, p) ==
  [k \in DOMAIN buf |->
     IF k >= PatchBase(gg, nrt) /\ k < PatchBase(gg + 1, nrt)
     THEN p[k - PatchBase(gg, nrt)] ELSE buf[k]]

(***************************************************************************)
(* interpolate, lines 91-127.  hr is 1/e; a patch value v is held as       *)
(* v*e*e, a background value as itself.                                    *)
(***************************************************************************)
\* mutant of InterpXValue: the two weights are exchanged
InterpXValueSwapped(bg, nn, rsi, e, ir, jb) ==
  LET xrn == rsi * e + ir
      ib  == xrn \div e
      fr  == xrn - ib * e
  IN  (bg[Idx(ib + 1, jb, nn)] * (e - fr) + bg[Idx(ib, jb, nn)] * fr) * e

\* IN(ib+1,jb)*(xr-xb) + IN(ib,jb)*(xb+1.0-xr), with xr = rstarti+hr*ir
InterpXValue(bg, nn, rsi, e, ir, jb) ==
  LET xrn == rsi * e + ir             \* xr * e
      ib  == xrn \div e               \* (long)xr
      fr  == xrn - ib * e             \* (xr - xb) * e
  IN  (bg[Idx(ib + 1, jb, nn)] * fr + bg[Idx(ib, jb, nn)] * (e - fr)) * e

RECURSIVE InterpX(_, _, _, _, _, _, _, _)
\* for (jr=0,jb=rstartj; jr<nr_true; jr+=expand,jb++) { row jr of the patch }
InterpX(buf, bg, nn, nrt, rsi, e, jr, jb) ==
  IF jr >= nrt THEN buf
  ELSE LET rendi == rsi + (nrt - 1) \div e
           row   == [k \in DOMAIN buf |->
                       IF k \div nrt # jr THEN buf[k]
                       ELSE IF k % nrt < nrt - 1
                            THEN InterpXValue(bg, nn, rsi, e, k % nrt, jb)
                            ELSE bg[Idx(rendi, jb, nn)] * e * e]
       IN  InterpX(row, bg, nn, nrt, rsi, e, jr + e, jb + 1)

RECURSIVE InterpY(_, _, _, _)
\* for (jr=0; jr<nr_true-1; jr++) { row jr from rows jrb and jrb1 }
InterpY(buf, nrt, e, jr) ==
  IF jr >= nrt - 1 THEN buf
  ELSE LET jb   == jr \div e           \* (long)yr, yr = hr*jr
           jrb  == jb * e
           jrb1 == (jb + 1) * e
           fy   == jr - jb * e         \* (yr - yb) * e
           row  == [k \in DOMAIN buf |->
                      IF k \div nrt # jr THEN buf[k]
                      ELSE (buf[Idx(k % nrt, jrb1, nrt)] * fy
                            + buf[Idx(k % nrt, jrb, nrt)] * (e - fy)) \div e]
       IN  InterpY(row, nrt, e, jr + 1)

\* mutant of interpolate: the copy takes rstarti and rstartj the wrong way round
interpolateTransposed(inrg, bg, nn, nrt, rsi, rsj, e) ==
  IF e = 1
  THEN [k \in DOMAIN inrg |-> bg[Idx((k % nrt) + rsj, (k \div nrt) + rsi, nn)]]
  ELSE InterpY(InterpX(inrg, bg, nn, nrt, rsi, e, 0, rsj), nrt, e, 0)

\* the patch inrg after interpolate(inrg, in, n, nr_true, rstarti, rstartj, expand, hr)
interpolate(inrg, bg, nn, nrt, rsi, rsj, e) ==
  IF e = 1
  THEN [k \in DOMAIN inrg |-> bg[Idx((k % nrt) + rsi, (k \div nrt) + rsj, nn)]]
  ELSE InterpY(InterpX(inrg, bg, nn, nrt, rsi, e, 0, rsj), nrt, e, 0)

(***************************************************************************)
(* Stencil loop bodies and loop nests, lines 386-435 and 443-492.          *)
(* a is the input buffer of side S starting at base, w the weight table.   *)
(***************************************************************************)
\* mutant of StarBody: the last loop stops at ii<RADIUS
StarBodyShort(a, base, S, w, R, i, j) ==
    Sum([jj \in Offsets(R) |-> w[<<0, jj>>] * a[base + Idx(i, j + jj, S)]], 0 - R, R)
  + Sum([ii \in (0 - R) .. (0 - 1) |-> w[<<ii, 0>>] * a[base + Idx(i + ii, j, S)]], 0 - R, 0 - 1)
  + Sum([ii \in 1 .. R |-> w[<<ii, 0>>] * a[base + Idx(i + ii, j, S)]], 1, R - 1)

\* the three star loops on OUT(i,j): y-direction, then ii<0, then ii>0
StarBody(a, base, S, w, R, i, j) ==
    Sum([jj \in Offsets(R) |-> w[<<0, jj>>] * a[base + Idx(i, j + jj, S)]], 0 - R, R)
  + Sum([ii \in (0 - R) .. (0 - 1) |-> w[<<ii, 0>>] * a[base + Idx(i + ii, j, S)]], 0 - R, 0 - 1)
  + Sum([ii \in 1 .. R |-> w[<<ii, 0>>] * a[base + Idx(i + ii, j, S)]], 1, R)

\* for (jj=-RADIUS..RADIUS) for (ii=-RADIUS..RADIUS) OUT(i,j) += WEIGHT(ii,jj)*IN(i+ii,j+jj)
CompactBody(a, base, S, w, R, i, j) ==
  Sum([jj \in Offsets(R) |->
         Sum([ii \in Offsets(R) |-> w[<<ii, jj>>] * a[base + Idx(i + ii, j + jj, S)]],
             0 - R, R)],
      0 - R, R)

LoopBody(a, base, S, w, R, star, i, j) ==
  IF star THEN StarBody(a, base, S, w, R, i, j) ELSE CompactBody(a, base, S, w, R, i, j)

\* untiled nest: how often the body runs at (i,j)
UntiledVisits(S, R, i, j) ==
  IF R <= i /\ i < S - R /\ R <= j /\ j < S - R THEN 1 ELSE 0

\* for (jt=RADIUS; jt<S-RADIUS; jt+=tile_size): the values jt takes
TileStarts(S, R, t) == {jt \in R .. (S - R - 1) : (jt - R) % t = 0}

\* mutant of TilesOver: the inner loop starts at jt+1
TilesOverLate(S, R, t, j) ==
  {jt \in TileStarts(S, R, t) : jt < j /\ j < MIN(S - R, jt + t)}

\* for (j=jt; j<MIN(S-RADIUS,jt+tile_size); j++): the tiles whose j loop reaches j
TilesOver(S, R, t, j) ==
  {jt \in TileStarts(S, R, t) : jt <= j /\ j < MIN(S - R, jt + t)}

\* tiled nest: how often the body runs at (i,j)
TiledVisits(S, R, t, i, j) ==
  Cardinality(TilesOver(S, R, t, j)) * Cardinality(TilesOver(S, R, t, i))

Visits(S, R, tiled, t, i, j) ==
  IF tiled THEN TiledVisits(S, R, t, i, j) ELSE UntiledVisits(S, R, i, j)

\* one pass of the loop nest over the grid of side S at base: o is the
\* output buffer, a the input buffer (which the pass does not change)
ApplyStencil(o, a, base, S, w, R, star, tiled, t) ==
  [k \in DOMAIN o |->
     IF k < base \/ k >= base + S * S THEN o[k]
     ELSE LET i == (k - base) % S
              j == (k - base) \div S
              c == Visits(S, R, tiled, t, i, j)
          IN  IF c = 0 THEN o[k]
              ELSE o[k] + c * LoopBody(a, base, S, w, R, star, i, j)]

RECURSIVE SubIterationsOffByOne(_, _, _, _, _, _, _, _, _, _)
\* mutant of SubIterations: the loop runs while sub_iter<=sub_iterations
SubIterationsOffByOne(o, a, base, S, w, R, star, tiled, t, left) ==
  IF left < 0 THEN o
  ELSE SubIterationsOffByOne(ApplyStencil(o, a, base, S, w, R, star, tiled, t),
                             a, base, S, w, R, star, tiled, t, left - 1)

RECURSIVE SubIterations(_, _, _, _, _, _, _, _, _, _)
\* for (sub_iter=0; sub_iter<sub_iterations; sub_iter++) { one pass }
SubIterations(o, a, base, S, w, R, star, tiled, t, left) ==
  IF left <= 0 THEN o
  ELSE SubIterations(ApplyStencil(o, a, base, S, w, R, star, tiled, t),
                     a, base, S, w, R, star, tiled, t, left - 1)

\* for (j..) for (i..) A(i,j) += 1.0 over the whole grid at base; unit is 1.0 as held
AddConstant(a, base, S, unit) ==
  [k \in DOMAIN a |-> IF k < base \/ k >= base + S * S THEN a[k] ELSE a[k] + unit]

\* sum of ABS(O(i,j)) over the interior of the grid at base, lines 503-505 and 511-514
InteriorSum(o, base, S, R) ==
  Sum([j \in R .. (S - R - 1) |->
         Sum([i \in R .. (S - R - 1) |-> ABS(o[base + Idx(i, j, S)])], R, S - R - 1)],
      R, S - R - 1)

(***************************************************************************)
(* Inputs: the command line and the build flags.                           *)
(***************************************************************************)
Config(argc, iterations, n, nr, r_level, period, duration, sub_iterations, tile, RADIUS, STAR) ==
  [argc |-> argc, iterations |-> iterations, n |-> n, nr |-> nr,
   r_level |-> r_level, period |-> period, duration |-> duration,
   sub_iterations |-> sub_iterations, tile |-> tile,
   RADIUS |-> RADIUS, STAR |-> STAR]

\* mutant of ArgError: the test of nr_true against the stencil is missing
ArgErrorNoRefinementTest(c) ==
  IF c.argc # 8 /\ c.argc # 9 THEN "Usage"
  ELSE IF c.iterations < 1 THEN "ERROR: iterations must be >= 1"
  ELSE IF c.n < 2 THEN "ERROR: grid must have at least one cell"
  ELSE IF c.nr < 1 THEN "ERROR: refinements must have at least one cell"
  ELSE IF c.nr >= c.n THEN "ERROR: refinements must be contained in background grid"
  ELSE IF c.r_level < 0 THEN "ERROR: refinement levels must be >= 0"
  ELSE IF c.period < 1 THEN "ERROR: refinement period must be at least one"
  ELSE IF c.duration < 1 \/ c.duration > c.period
       THEN "ERROR: refinement duration must be positive, no greater than period"
  ELSE IF c.sub_iterations < 1 THEN "ERROR: refinement sub-iterations must be positive"
  ELSE IF c.RADIUS < 1 THEN "ERROR: Stencil radius should be positive"
  ELSE IF 2 * c.RADIUS + 1 > c.n THEN "ERROR: Stencil radius exceeds grid size"
  ELSE "none"

\* the first test of lines 178-261 that fails, "none" when all pass
ArgError(c) ==
  IF c.argc # 8 /\ c.argc # 9 THEN "Usage"
  ELSE IF c.iterations < 1 THEN "ERROR: iterations must be >= 1"
  ELSE IF c.n < 2 THEN "ERROR: grid must have at least one cell"
  ELSE IF c.nr < 1 THEN "ERROR: refinements must have at least one cell"
  ELSE IF c.nr >= c.n THEN "ERROR: refinements must be contained in background grid"
  ELSE IF c.r_level < 0 THEN "ERROR: refinement levels must be >= 0"
  ELSE IF c.period < 1 THEN "ERROR: refinement period must be at least one"
  ELSE IF c.duration < 1 \/ c.duration > c.period
       THEN "ERROR: refinement duration must be positive, no greater than period"
  ELSE IF c.sub_iterations < 1 THEN "ERROR: refinement sub-iterations must be positive"
  ELSE IF c.RADIUS < 1 THEN "ERROR: Stencil radius should be positive"
  ELSE IF 2 * c.RADIUS + 1 > c.n THEN "ERROR: Stencil radius exceeds grid size"
  ELSE IF 2 * c.RADIUS + 1 > c.nr * Pow2(c.r_level) + 1
       THEN "ERROR: Stencil radius exceeds refinement size"
  ELSE "none"

\* if (argc == 9) { if (tile_size<=0 || tile_size>n) tile_size=n; else tiling=1; }
Tiling(c) == c.argc = 9 /\ ~(c.tile <= 0 \/ c.tile > c.n)

TileSize(c) ==
  IF c.argc = 9 THEN (IF c.tile <= 0 \/ c.tile > c.n THEN c.n ELSE c.tile) ELSE Uninit

(***************************************************************************)
(* main, one action per section.                                           *)
(***************************************************************************)
InitVars(c, r) ==
  /\ cfg = c
  /\ roundoff = r
  /\ pc = "args"
  /\ expand = Uninit /\ nr_true = Uninit
  /\ tiling = FALSE /\ tile_size = Uninit
  /\ allocated = FALSE
  /\ weight = <<>> /\ weight_r = <<>> /\ stencil_size = Uninit
  /\ in = <<>> /\ out = <<>> /\ inr = <<>> /\ outr = <<>>
  /\ out_untiled = <<>> /\ outr_untiled = <<>>
  /\ rstarti = <<>> /\ rstartj = <<>>
  /\ iter = Uninit /\ g = Uninit
  /\ num_interpolations = Uninit
  /\ napplied = [h \in Corners |-> 0]
  /\ ntimed = [h \in Corners |-> 0]
  /\ norm = Uninit /\ norm_r = <<>>
  /\ reference_norm = Uninit /\ reference_norm_r = <<>>
  /\ iterations_r = <<>>
  /\ validate = TRUE
  /\ flops = Uninit
  /\ status = "running"
  /\ printed = <<>>

\* lines 178-261
ProcessArgs ==
  /\ pc = "args"
  /\ IF ArgError(cfg) # "none"
     THEN /\ pc' = "exit"
          /\ status' = "EXIT_FAILURE"
          /\ printed' = Append(printed, ArgError(cfg))
          /\ UNCHANGED <<expand, nr_true, tiling, tile_size>>
     ELSE /\ pc' = "alloc"
          /\ expand' = Pow2(cfg.r_level)
          /\ nr_true' = cfg.nr * Pow2(cfg.r_level) + 1
          /\ tiling' = Tiling(cfg)
          /\ tile_size' = TileSize(cfg)
          /\ UNCHANGED <<status, printed>>
  /\ UNCHANGED <<cfg, roundoff, allocated, weight, weight_r, stencil_size,
                 in, out, inr, outr, out_untiled, outr_untiled, rstarti, rstartj,
                 iter, g, num_interpolations, napplied, ntimed, norm, norm_r,
                 reference_norm, reference_norm_r, iterations_r, validate, flops>>

\* lines 263-283; prk_malloc may return NULL
Allocate ==
  /\ pc = "alloc"
  /\ \E ok \in BOOLEAN :
       IF ok
       THEN /\ allocated' = TRUE
            /\ in' = [k \in Cells(cfg.n) |-> Uninit]
            /\ out' = [k \in Cells(cfg.n) |-> Uninit]
            /\ out_untiled' = [k \in Cells(cfg.n) |-> Uninit]
            /\ inr' = [k \in 0 .. (4 * nr_true * nr_true - 1) |-> Uninit]
            /\ outr' = [k \in 0 .. (4 * nr_true * nr_true - 1) |-> Uninit]
            /\ outr_untiled' = [k \in 0 .. (4 * nr_true * nr_true - 1) |-> Uninit]
            /\ g' = 4
            /\ pc' = "weights"
            /\ UNCHANGED <<status, printed>>
       ELSE /\ pc' = "exit"
            /\ status' = "EXIT_FAILURE"
            /\ printed' = Append(printed, "ERROR: could not allocate space")
            /\ UNCHANGED <<allocated, in, out, out_untiled, inr, outr, outr_untiled, g>>
  /\ UNCHANGED <<cfg, roundoff, expand, nr_true, tiling, tile_size, weight, weight_r,
                 stencil_size, rstarti, rstartj, iter, num_interpolations, napplied, ntimed,
                 norm, norm_r, reference_norm, reference_norm_r, iterations_r,
                 validate, flops>>

\* lines 285-316
BuildWeights ==
  /\ pc = "weights"
  /\ weight' = Weights(cfg.RADIUS, cfg.STAR)
  /\ stencil_size' = StencilSize(cfg.RADIUS, cfg.STAR)
  /\ weight_r' = ScaledWeights(Weights(cfg.RADIUS, cfg.STAR), expand)
  /\ pc' = "init"
  /\ UNCHANGED <<cfg, roundoff, expand, nr_true, tiling, tile_size, allocated,
                 in, out, inr, outr, out_untiled, outr_untiled, rstarti, rstartj,
                 iter, g, num_interpolations, napplied, ntimed, norm, norm_r,
                 reference_norm, reference_norm_r, iterations_r, validate, flops,
                 status, printed>>

Interior(k, S, R) ==
  /\ R <= k % S /\ k % S < S - R
  /\ R <= k \div S /\ k \div S < S - R

\* IN(i,j) = COEFX*i+COEFY*j on the whole grid, OUT(i,j) = 0.0 on the interior
InitialIn(nn) == [k \in Cells(nn) |-> COEFX * (k % nn) + COEFY * (k \div nn)]

ZeroInterior(o, S, R) ==
  [k \in DOMAIN o |-> IF Interior(k % (S * S), S, R) THEN 0 ELSE o[k]]

\* lines 349-370, and the loop initialisation iter = 0 of line 372
InitGrids ==
  /\ pc = "init"
  /\ in' = InitialIn(cfg.n)
  /\ out' = ZeroInterior(out, cfg.n, cfg.RADIUS)
  /\ out_untiled' = ZeroInterior(out_untiled, cfg.n, cfg.RADIUS)
  /\ rstarti' = [h \in Corners |-> IF h \in {0, 2} THEN 0 ELSE cfg.n - cfg.nr - 1]
  /\ rstartj' = [h \in Corners |-> IF h \in {0, 3} THEN 0 ELSE cfg.n - cfg.nr - 1]
  /\ inr' = [k \in DOMAIN inr |-> 0]
  /\ outr' = ZeroInterior(outr, nr_true, cfg.RADIUS)
  /\ outr_untiled' = ZeroInterior(outr_untiled, nr_true, cfg.RADIUS)
  /\ g' = 4
  /\ num_interpolations' = 0
  /\ iter' = 0
  /\ pc' = "loop"
  /\ UNCHANGED <<cfg, roundoff, expand, nr_true, tiling, tile_size, allocated,
                 weight, weight_r, stencil_size, napplied, ntimed, norm, norm_r,
                 reference_norm, reference_norm_r, iterations_r, validate, flops,
                 status, printed>>

\* mutant of Owner: the division by period is missing
OwnerNoPeriod(it, period) == it % 4

\* g=(iter/period)%4, line 379
Owner(it, period) == (it \div period) % 4

\* the patch inr[g] after line 381
Born(gg) ==
  interpolate(Patch(inr, gg, nr_true), in, cfg.n, nr_true,
              rstarti[gg], rstartj[gg], expand)

\* lines 372-382: loop test, and the birth of a refinement
Birth ==
  /\ pc = "loop"
  /\ iter <= cfg.iterations
  /\ IF iter % cfg.period = 0
     THEN /\ g' = Owner(iter, cfg.period)
          /\ num_interpolations' = num_interpolations + 1
          /\ inr' = WithPatch(inr, Owner(iter, cfg.period), nr_true,
                              Born(Owner(iter, cfg.period)))
     ELSE UNCHANGED <<g, num_interpolations, inr>>
  /\ pc' = "refine"
  /\ UNCHANGED <<cfg, roundoff, expand, nr_true, tiling, tile_size, allocated,
                 weight, weight_r, stencil_size, in, out, outr, out_untiled,
                 outr_untiled, rstarti, rstartj, iter, napplied, ntimed, norm, norm_r,
                 reference_norm, reference_norm_r, iterations_r, validate, flops,
                 status, printed>>

\* lines 384-439: the sub-iterations on refinement g, then INR(g,i,j) += 1.0
Refine ==
  /\ pc = "refine"
  /\ IF iter % cfg.period < cfg.duration
     THEN /\ outr' = SubIterations(outr, inr, PatchBase(g, nr_true), nr_true,
                                   weight_r, cfg.RADIUS, cfg.STAR, tiling, tile_size,
                                   cfg.sub_iterations)
          /\ outr_untiled' = SubIterations(outr_untiled, inr, PatchBase(g, nr_true),
                                           nr_true, weight_r, cfg.RADIUS, cfg.STAR,
                                           FALSE, tile_size, cfg.sub_iterations)
          /\ inr' = AddConstant(inr, PatchBase(g, nr_true), nr_true, expand * expand)
          /\ napplied' = [napplied EXCEPT ![g] = @ + cfg.sub_iterations]
          /\ ntimed' = IF iter >= 1
                       THEN [ntimed EXCEPT ![g] = @ + cfg.sub_iterations]
                       ELSE ntimed
     ELSE UNCHANGED <<outr, outr_untiled, inr, napplied, ntimed>>
  /\ pc' = "background"
  /\ UNCHANGED <<cfg, roundoff, expand, nr_true, tiling, tile_size, allocated,
                 weight, weight_r, stencil_size, in, out, out_untiled, rstarti,
                 rstartj, iter, g, num_interpolations, norm, norm_r,
                 reference_norm, reference_norm_r, iterations_r, validate, flops,
                 status, printed>>

\* lines 441-497: the stencil on the background grid, IN(i,j) += 1.0, iter++
Background ==
  /\ pc = "background"
  /\ out' = ApplyStencil(out, in, 0, cfg.n, weight, cfg.RADIUS, cfg.STAR,
                         tiling, tile_size)
  /\ out_untiled' = ApplyStencil(out_untiled, in, 0, cfg.n, weight, cfg.RADIUS,
                                 cfg.STAR, FALSE, tile_size)
  /\ in' = AddConstant(in, 0, cfg.n, 1)
  /\ iter' = iter + 1
  /\ pc' = "loop"
  /\ UNCHANGED <<cfg, roundoff, expand, nr_true, tiling, tile_size, allocated,
                 weight, weight_r, stencil_size, inr, outr, outr_untiled, rstarti,
                 rstartj, g, num_interpolations, napplied, ntimed, norm, norm_r,
                 reference_norm, reference_norm_r, iterations_r, validate, flops,
                 status, printed>>

\* (n-2*RADIUS)*(n-2*RADIUS), lines 318-319
ActivePoints(S, R) == (S - 2 * R) * (S - 2 * R)

\* denominators the norms are held over
NormDen   == WDen(cfg.RADIUS) * ActivePoints(cfg.n, cfg.RADIUS)
NormDenR  == WDen(cfg.RADIUS) * expand * expand * ActivePoints(nr_true, cfg.RADIUS)

\* lines 499-516, after the loop has ended
ComputeNorms ==
  /\ pc = "loop"
  /\ iter > cfg.iterations
  /\ norm' = InteriorSum(out, 0, cfg.n, cfg.RADIUS) + roundoff
  /\ norm_r' = [h \in Corners |->
                  InteriorSum(outr, PatchBase(h, nr_true), nr_true, cfg.RADIUS) + roundoff]
  /\ g' = 4
  /\ pc' = "validate"
  /\ UNCHANGED <<cfg, roundoff, expand, nr_true, tiling, tile_size, allocated,
                 weight, weight_r, stencil_size, in, out, inr, outr, out_untiled,
                 outr_untiled, rstarti, rstartj, iter, num_interpolations, napplied, ntimed,
                 reference_norm, reference_norm_r, iterations_r, validate, flops,
                 status, printed>>

\* ABS(measured-reference) > EPSILON, measured held as numerator over den
Differs(measured, reference, den) ==
  ABS(measured - reference * den) > den \div EPSILONINV

\* mutant of IterationsR: the leftover term is not clamped below by 0
IterationsRNoMax(c, h) ==
  LET full_cycles         == (c.iterations + 1) \div (c.period * 4)
      leftover_iterations == (c.iterations + 1) % (c.period * 4)
  IN  c.sub_iterations * (full_cycles * c.duration
        + MIN(leftover_iterations - h * c.period, c.duration))

\* lines 538-541
IterationsR(c, h) ==
  LET full_cycles         == (c.iterations + 1) \div (c.period * 4)
      leftover_iterations == (c.iterations + 1) % (c.period * 4)
  IN  c.sub_iterations * (full_cycles * c.duration
        + MIN(MAX(0, leftover_iterations - h * c.period), c.duration))

ReferenceNorm(c) == (c.iterations + 1) * (COEFX + COEFY)

ReferenceNormR(c, h) == IterationsR(c, h) * (COEFX + COEFY)

\* the test of line 524 fails
FailingBackground == Differs(norm, ReferenceNorm(cfg), NormDen)

\* the corners whose test of line 543 fails
FailingCorners ==
  {h \in Corners : Differs(norm_r[h], ReferenceNormR(cfg, h), NormDenR)}

Validates == ~FailingBackground /\ FailingCorners = {}

\* mutant of AfterValidation: the exit on a failed validation is missing
AfterValidationNoExit(valid) == "report"

\* if (!validate) exit(EXIT_FAILURE), lines 556-559
AfterValidation(valid) == IF valid THEN "report" ELSE "exit"

\* lines 522-559
Validate ==
  /\ pc = "validate"
  /\ reference_norm' = ReferenceNorm(cfg)
  /\ iterations_r' = [h \in Corners |-> IterationsR(cfg, h)]
  /\ reference_norm_r' = [h \in Corners |-> ReferenceNormR(cfg, h)]
  /\ validate' = Validates
  /\ pc' = AfterValidation(Validates)
  /\ printed' = IF Validates
                THEN printed
                ELSE printed \o <<"ERROR: L1 norm", "Solution does not validate">>
  /\ status' = IF pc' = "exit" THEN "EXIT_FAILURE" ELSE status
  /\ UNCHANGED <<cfg, roundoff, expand, nr_true, tiling, tile_size, allocated,
                 weight, weight_r, stencil_size, in, out, inr, outr, out_untiled,
                 outr_untiled, rstarti, rstartj, iter, g, num_interpolations,
                 napplied, ntimed, norm, norm_r, flops>>

\* lines 563-573
Flops ==
  LET it_r == [iterations_r EXCEPT ![0] = @ - 1]
      st   == ActivePoints(cfg.n, cfg.RADIUS) * cfg.iterations
              + Sum([h \in Corners |-> ActivePoints(nr_true, cfg.RADIUS) * it_r[h]], 0, 3)
  IN  st * (2 * stencil_size + 1)
      + (IF cfg.r_level > 0
         THEN nr_true * (num_interpolations - 1) * 3 * (nr_true + cfg.nr)
         ELSE 0)

\* lines 561-578
Report ==
  /\ pc = "report"
  /\ flops' = Flops
  /\ iterations_r' = [iterations_r EXCEPT ![0] = @ - 1]
  /\ num_interpolations' =
       IF cfg.r_level > 0 THEN num_interpolations - 1 ELSE num_interpolations
  /\ printed' = printed \o <<"Solution validates", "Rate (MFlops/s)">>
  /\ status' = "EXIT_SUCCESS"
  /\ pc' = "exit"
  /\ UNCHANGED <<cfg, roundoff, expand, nr_true, tiling, tile_size, allocated,
                 weight, weight_r, stencil_size, in, out, inr, outr, out_untiled,
                 outr_untiled, rstarti, rstartj, iter, g, napplied, ntimed, norm, norm_r,
                 reference_norm, reference_norm_r, validate>>

Next ==
  \/ ProcessArgs
  \/ Allocate
  \/ BuildWeights
  \/ InitGrids
  \/ Birth
  \/ Refine
  \/ Background
  \/ ComputeNorms
  \/ Validate
  \/ Report

(***************************************************************************)
(* The runs checked, in exact arithmetic (roundoff = 0):                   *)
(*   ScheduleConfigs  every schedule over the bounded ranges, untiled, on  *)
(*                    the smallest grids the radius and level admit;       *)
(*   GridConfigs      every grid size, refinement size, level, radius and  *)
(*                    tile argument over the bounded ranges, on a schedule *)
(*                    of two iterations that gives birth to two corners;   *)
(*   ScenarioA        the run of section 8 of the specification.           *)
(* Both families keep the command lines the argument tests reject.         *)
(***************************************************************************)
\* smallest nr with 2*RADIUS+1 <= nr*2^l+1, and the smallest n above it
MinNr(R, l) == (2 * R + Pow2(l) - 1) \div Pow2(l)

SmallN(R, l) == MAX(2 * R + 1, MinNr(R, l) + 1)

ScheduleConfigs ==
  {Config(8, iterations, SmallN(RADIUS, r_level), MinNr(RADIUS, r_level), r_level,
          period, duration, sub_iterations, 0, RADIUS, STAR) :
     iterations \in 1 .. MaxIterations, r_level \in 0 .. MaxLevel,
     period \in 1 .. MaxPeriod, duration \in 1 .. MaxPeriod,
     sub_iterations \in 1 .. MaxSub, RADIUS \in 1 .. MaxRadius, STAR \in BOOLEAN}

GridConfigs ==
  {Config(9, 2, n, nr, r_level, 1, 1, 1, tile, RADIUS, STAR) :
     n \in 3 .. MaxN, nr \in 1 .. (MaxN - 1), r_level \in 0 .. MaxLevel,
     tile \in 0 .. (MaxN + 1), RADIUS \in 1 .. MaxRadius, STAR \in BOOLEAN}

ScenarioA == Config(8, 5, 20, 4, 0, 1, 1, 1, 0, 2, TRUE)

Configs == ScheduleConfigs \cup GridConfigs \cup {ScenarioA}

Init == \E c \in Configs : InitVars(c, 0)

Spec == Init /\ [][Next]_vars

(***************************************************************************)
(* SpecCfg: the argument tests on every command line over ranges that      *)
(* reach one step below each constraint, up to the allocation.             *)
(***************************************************************************)
InitCfg ==
  \E argc \in 7 .. 9, iterations \in 0 .. 1, n \in 1 .. MaxN, nr \in 0 .. MaxN,
     r_level \in (0 - 1) .. MaxLevel, period \in 0 .. MaxPeriod,
     duration \in 0 .. (MaxPeriod + 1), sub_iterations \in 0 .. MaxSub,
     RADIUS \in 0 .. MaxRadius :
    InitVars(Config(argc, iterations, n, nr, r_level, period, duration,
                    sub_iterations, 0, RADIUS, TRUE), 0)

NextCfg == ProcessArgs \/ Allocate

SpecCfg == InitCfg /\ [][NextCfg]_vars

(***************************************************************************)
(* SpecRound: short runs whose norms carry a floating-point error of       *)
(* 0..MaxRoundoff units.                                                   *)
(***************************************************************************)
RoundConfigs == {c \in ScheduleConfigs : c.iterations <= 2}

InitRound == \E c \in RoundConfigs, r \in 0 .. MaxRoundoff : InitVars(c, r)

SpecRound == InitRound /\ [][Next]_vars

(***************************************************************************)
(* SpecWeights: the weight tables of every radius and shape, built by      *)
(* BuildWeights and applied once to the field a*i + b*j + c on the         *)
(* background grid and to the same field sampled at spacing hr on a        *)
(* refinement.  cfg carries the coefficients a, b, c.                      *)
(***************************************************************************)
LinearIn(nn, a, b, c) == [k \in Cells(nn) |-> a * (k % nn) + b * (k \div nn) + c]

\* a*(hr*i) + b*(hr*j) + c on each of the four patches, held times e*e
LinearInr(nrt, e, a, b, c) ==
  [k \in 0 .. (4 * nrt * nrt - 1) |->
     (a * ((k % (nrt * nrt)) % nrt) + b * ((k % (nrt * nrt)) \div nrt)) * e + c * e * e]

InitWeights ==
  \E R \in 1 .. MaxRadius, star \in BOOLEAN, l \in 0 .. MaxLevel,
     a \in (0 - MaxCoef) .. MaxCoef, b \in (0 - MaxCoef) .. MaxCoef,
     c \in (0 - MaxCoef) .. MaxCoef :
    LET nn  == 2 * R + 2
        nr  == MinNr(R, l) + 1
        e   == Pow2(l)
        nrt == nr * e + 1
        o   == ZeroInterior([k \in Cells(nn) |-> Uninit], nn, R)
        or  == ZeroInterior([k \in 0 .. (4 * nrt * nrt - 1) |-> Uninit], nrt, R)
    IN  /\ cfg = Config(8, 1, nn, nr, l, 1, 1, 1, 0, R, star)
                   @@ [a |-> a, b |-> b, c |-> c]
        /\ roundoff = 0
        /\ pc = "weights"
        /\ expand = e /\ nr_true = nrt
        /\ tiling = FALSE /\ tile_size = Uninit
        /\ allocated = TRUE
        /\ weight = <<>> /\ weight_r = <<>> /\ stencil_size = Uninit
        /\ in = LinearIn(nn, a, b, c) /\ inr = LinearInr(nrt, e, a, b, c)
        /\ out = o /\ out_untiled = o /\ outr = or /\ outr_untiled = or
        /\ rstarti = <<>> /\ rstartj = <<>>
        /\ iter = Uninit /\ g = 4
        /\ num_interpolations = Uninit
        /\ napplied = [h \in Corners |-> 0]
        /\ ntimed = [h \in Corners |-> 0]
        /\ norm = Uninit /\ norm_r = <<>>
        /\ reference_norm = Uninit /\ reference_norm_r = <<>>
        /\ iterations_r = <<>>
        /\ validate = TRUE
        /\ flops = Uninit
        /\ status = "running"
        /\ printed = <<>>

\* one pass of the untiled loop nests of lines 387-407 (refinement 0) and
\* 444-464 (background grid)
ApplyOnce ==
  /\ pc = "init"
  /\ out' = ApplyStencil(out, in, 0, cfg.n, weight, cfg.RADIUS, cfg.STAR,
                         FALSE, tile_size)
  /\ outr' = ApplyStencil(outr, inr, PatchBase(0, nr_true), nr_true, weight_r,
                          cfg.RADIUS, cfg.STAR, FALSE, tile_size)
  /\ pc' = "applied"
  /\ UNCHANGED <<cfg, roundoff, expand, nr_true, tiling, tile_size, allocated,
                 weight, weight_r, stencil_size, in, inr, out_untiled, outr_untiled,
                 rstarti, rstartj, iter, g, num_interpolations, napplied, ntimed, norm,
                 norm_r, reference_norm, reference_norm_r, iterations_r, validate,
                 flops, status, printed>>

NextWeights == BuildWeights \/ ApplyOnce

SpecWeights == InitWeights /\ [][NextWeights]_vars

(***************************************************************************)
(* SpecInterp: interpolate at the birth of each corner, on background      *)
(* contents that are not a linear field: one cell of any position and      *)
(* value on a grid of any uniform value.  The patches hold Stale before    *)
(* the birth; cfg carries the background as bg.                            *)
(***************************************************************************)
Stale == 0 - 1

Backgrounds(nn) ==
  {[k \in Cells(nn) |-> IF k = c1 THEN v1 ELSE v0] :
     c1 \in Cells(nn), v0 \in 0 .. MaxVal, v1 \in 0 .. MaxVal}

InitInterp ==
  \E nn \in 3 .. MaxInterpN, l \in 0 .. MaxLevel, h \in Corners :
    \E nr \in 1 .. (nn - 1), bg \in Backgrounds(nn) :
      LET e   == Pow2(l)
          nrt == nr * e + 1
      IN  /\ nrt >= 3
          /\ cfg = Config(8, 4, nn, nr, l, 1, 1, 1, 0, 1, TRUE) @@ [bg |-> bg]
          /\ roundoff = 0
          /\ pc = "loop"
          /\ expand = e /\ nr_true = nrt
          /\ tiling = FALSE /\ tile_size = Uninit
          /\ allocated = TRUE
          /\ weight = Weights(1, TRUE) /\ weight_r = ScaledWeights(Weights(1, TRUE), e)
          /\ stencil_size = StencilSize(1, TRUE)
          /\ in = bg
          /\ inr = [k \in 0 .. (4 * nrt * nrt - 1) |-> Stale]
          /\ out = <<>> /\ out_untiled = <<>> /\ outr = <<>> /\ outr_untiled = <<>>
          /\ rstarti = [q \in Corners |-> IF q \in {0, 2} THEN 0 ELSE nn - nr - 1]
          /\ rstartj = [q \in Corners |-> IF q \in {0, 3} THEN 0 ELSE nn - nr - 1]
          /\ iter = h /\ g = (h + 3) % 4
          /\ num_interpolations = h
          /\ napplied = [q \in Corners |-> 0]
          /\ ntimed = [q \in Corners |-> 0]
          /\ norm = Uninit /\ norm_r = <<>>
          /\ reference_norm = Uninit /\ reference_norm_r = <<>>
          /\ iterations_r = <<>>
          /\ validate = TRUE
          /\ flops = Uninit
          /\ status = "running"
          /\ printed = <<>>

NextInterp == Birth

SpecInterp == InitInterp /\ [][NextInterp]_vars

(***************************************************************************)
(* Properties.                                                             *)
(***************************************************************************)
\* the main loop has ended
LoopDone ==
  allocated /\ (pc \in {"validate", "report", "exit"}
                \/ (pc = "loop" /\ iter > cfg.iterations))

\* the norms have been computed
NormsDone == allocated /\ pc \in {"validate", "report", "exit"}

InteriorCells(S, R) == {k \in Cells(S) : Interior(k, S, R)}

\* C1: after the main loop every interior cell of the background out buffer
\* holds (iterations+1)*(COEFX+COEFY); in exact arithmetic the background L1
\* norm equals the reference and the background test of line 524 passes.
C1_BackgroundNorm ==
  /\ LoopDone =>
       \A k \in InteriorCells(cfg.n, cfg.RADIUS) :
          out[k] = (cfg.iterations + 1) * (COEFX + COEFY) * WDen(cfg.RADIUS)
  /\ (NormsDone /\ roundoff = 0) =>
       /\ norm = (cfg.iterations + 1) * (COEFX + COEFY) * NormDen
       /\ ~FailingBackground
  /\ (pc \in {"report", "exit"} /\ allocated /\ roundoff = 0) =>
       reference_norm = (cfg.iterations + 1) * (COEFX + COEFY)

C1_Witness ==
  /\ pc = "exit" /\ status = "EXIT_SUCCESS"
  /\ cfg.iterations > 1 /\ cfg.RADIUS = MaxRadius
  /\ tiling /\ ~cfg.STAR
  /\ norm = (cfg.iterations + 1) * (COEFX + COEFY) * NormDen

\* the closed form of the claim: clamp(leftover - g*period, 0, duration)
Clamp(x, lo, hi) == IF x < lo THEN lo ELSE IF x > hi THEN hi ELSE x

ClaimedApplications(c, h) ==
  c.sub_iterations
  * (((c.iterations + 1) \div (4 * c.period)) * c.duration
     + Clamp(((c.iterations + 1) % (4 * c.period)) - h * c.period, 0, c.duration))

\* C2: for every corner the number of stencil passes it received over
\* iter = 0..iterations is sub_iterations*(full_cycles*duration +
\* clamp(leftover - g*period, 0, duration)); every interior cell of its out
\* buffer holds that count times (COEFX+COEFY), the measured norm equals the
\* reference of lines 538-542 and the corner test passes.
C2_CornerCounts ==
  /\ LoopDone =>
       \A h \in Corners :
          /\ napplied[h] = ClaimedApplications(cfg, h)
          /\ napplied[h] = IterationsR(cfg, h)
          /\ \A k \in InteriorCells(nr_true, cfg.RADIUS) :
                outr[PatchBase(h, nr_true) + k]
                  = napplied[h] * (COEFX + COEFY) * WDen(cfg.RADIUS) * expand * expand
  /\ (NormsDone /\ roundoff = 0) =>
       \A h \in Corners :
          /\ norm_r[h] = napplied[h] * (COEFX + COEFY) * NormDenR
          /\ h \notin FailingCorners

C2_Witness ==
  /\ pc = "exit" /\ status = "EXIT_SUCCESS"
  /\ cfg.sub_iterations > 1 /\ cfg.r_level > 0 /\ cfg.duration < cfg.period
  /\ (cfg.iterations + 1) \div (4 * cfg.period) >= 1
  /\ (cfg.iterations + 1) % (4 * cfg.period) > 0
  /\ napplied[0] > napplied[1] /\ napplied[3] > 0

\* C3 as the specification states it: in Scenario A all four corner norms
\* equal 5*(COEFX+COEFY).
C3_AllCornersFive ==
  (cfg = ScenarioA /\ NormsDone) =>
     \A h \in Corners : norm_r[h] = 5 * (COEFX + COEFY) * NormDenR

\* C3, amended: in Scenario A the background norm is 6*(COEFX+COEFY), the
\* norms of corners 0 and 1 are 2*(COEFX+COEFY) and those of corners 2 and 3
\* are 1*(COEFX+COEFY); each equals the reference of the per-corner formula
\* and validation passes.
C3_ScenarioA ==
  /\ (cfg = ScenarioA /\ NormsDone) =>
       /\ norm = 6 * (COEFX + COEFY) * NormDen
       /\ \A h \in {0, 1} : norm_r[h] = 2 * (COEFX + COEFY) * NormDenR
       /\ \A h \in {2, 3} : norm_r[h] = 1 * (COEFX + COEFY) * NormDenR
       /\ \A h \in Corners : norm_r[h] = ReferenceNormR(cfg, h) * NormDenR
       /\ Validates
  /\ (cfg = ScenarioA /\ pc = "exit" /\ allocated) =>
       /\ validate /\ status = "EXIT_SUCCESS"
       /\ reference_norm_r = [h \in Corners |-> IF h \in {0, 1} THEN 4 ELSE 2]

C3_Witness ==
  cfg = ScenarioA /\ pc = "exit" /\ status = "EXIT_SUCCESS" /\ iter = 6

\* the loop of lines 372-497 is running
InLoop == pc \in {"loop", "refine", "background"}

\* patch h of a refinement buffer differs between b and c
PatchChanged(b, c, h) == Patch(b, h, nr_true) # Patch(c, h, nr_true)

\* C4, per step: a step of the loop changes the out buffer of corner h only
\* if it is the refinement step of an iteration with iter mod period <
\* duration and h is (iter div period) mod 4, the corner born last; such a
\* step does change that corner, by sub_iterations passes.
C4_Step ==
  InLoop =>
    \A h \in Corners :
       LET active == /\ pc = "refine"
                     /\ iter % cfg.period < cfg.duration
                     /\ h = (iter \div cfg.period) % 4
       IN  /\ PatchChanged(outr, outr', h) <=> active
           /\ active => g = h
           /\ napplied'[h] - napplied[h] = IF active THEN cfg.sub_iterations ELSE 0

\* C4, per cycle: at every multiple of 4*period each corner has been active
\* in exactly duration iterations of every cycle completed so far.
C4_Cycle ==
  (pc = "loop" /\ iter % (4 * cfg.period) = 0) =>
     \A h \in Corners :
        napplied[h] = (iter \div (4 * cfg.period)) * cfg.duration * cfg.sub_iterations

\* C4: in every iteration at most one corner receives stencil updates, the
\* corner (iter div period) mod 4, iff iter mod period < duration; over each
\* 4*period iterations from a multiple of 4*period every corner is active in
\* exactly duration iterations.
C4_OneActiveCorner == [][C4_Step]_vars /\ []C4_Cycle

C4_Witness ==
  /\ pc = "loop" /\ iter = 4 * cfg.period
  /\ cfg.period > 1 /\ cfg.duration < cfg.period /\ cfg.sub_iterations > 1
  /\ \A h \in Corners : napplied[h] = cfg.duration * cfg.sub_iterations

\* C6: for every tile size the tiled loop nest runs the body exactly once at
\* every interior point and never at a halo point, on the background grid
\* and on a refinement alike, so the out buffers (and with them the norms)
\* equal those of the same run with tiling off.
C6_TiledEqualsUntiled ==
  (allocated /\ pc # "alloc") =>
     /\ tiling =>
          /\ \A i, j \in 0 .. (cfg.n - 1) :
                TiledVisits(cfg.n, cfg.RADIUS, tile_size, i, j)
                  = IF Interior(Idx(i, j, cfg.n), cfg.n, cfg.RADIUS) THEN 1 ELSE 0
          /\ \A i, j \in 0 .. (nr_true - 1) :
                TiledVisits(nr_true, cfg.RADIUS, tile_size, i, j)
                  = IF Interior(Idx(i, j, nr_true), nr_true, cfg.RADIUS) THEN 1 ELSE 0
     /\ out = out_untiled
     /\ outr = outr_untiled

C6_Witness ==
  /\ pc = "exit" /\ status = "EXIT_SUCCESS" /\ tiling
  /\ tile_size > 1
  /\ tile_size < cfg.n - 2 * cfg.RADIUS /\ (cfg.n - 2 * cfg.RADIUS) % tile_size # 0
  /\ tile_size < nr_true - 2 * cfg.RADIUS /\ (nr_true - 2 * cfg.RADIUS) % tile_size # 0
  /\ out = out_untiled /\ outr = outr_untiled

\* the constraints on a configuration
ValidConfig(c) ==
  /\ c.iterations >= 1 /\ c.n >= 2 /\ c.nr >= 1 /\ c.nr < c.n /\ c.r_level >= 0
  /\ c.period >= 1 /\ c.duration >= 1 /\ c.duration <= c.period
  /\ c.sub_iterations >= 1 /\ c.RADIUS >= 1
  /\ 2 * c.RADIUS + 1 <= c.n
  /\ 2 * c.RADIUS + 1 <= c.nr * Pow2(c.r_level) + 1

\* C8: a configuration that violates a constraint ends the program with
\* failure status in the argument tests: no buffer is ever allocated and no
\* iteration of the main loop runs.
C8_InvalidRejected ==
  (~ValidConfig(cfg) /\ pc # "args") =>
     /\ pc = "exit" /\ status = "EXIT_FAILURE"
     /\ ~allocated
     /\ in = <<>> /\ out = <<>> /\ inr = <<>> /\ outr = <<>>
     /\ iter = Uninit
     /\ Len(printed) = 1

C8_Witness ==
  /\ pc = "exit" /\ status = "EXIT_FAILURE" /\ ~allocated
  /\ cfg.argc = 8 /\ cfg.r_level > 0 /\ cfg.RADIUS > 1
  /\ printed = <<"ERROR: Stencil radius exceeds refinement size">>

RateReported == \E m \in DOMAIN printed : printed[m] = "Rate (MFlops/s)"

\* C9 as the specification states it: a run whose validation fails still
\* computes and reports the flop rate, then exits with failure status.
C9_RateDespiteFailure ==
  (pc = "exit" /\ allocated /\ ~validate) =>
     (RateReported /\ status = "EXIT_FAILURE")

\* C9, amended: a run whose validation fails prints that the solution does
\* not validate and exits with failure status at once; the flop count is not
\* computed and no rate is reported.  The rate is reported exactly by the
\* runs that validate, which exit with success status.
C9_FailureSkipsRate ==
  /\ (pc = "exit" /\ allocated /\ ~validate) =>
       /\ status = "EXIT_FAILURE"
       /\ ~RateReported
       /\ flops = Uninit
       /\ printed[Len(printed)] = "Solution does not validate"
  /\ (pc = "exit" /\ RateReported) => (validate /\ status = "EXIT_SUCCESS")

C9_Witness ==
  /\ pc = "exit" /\ ~validate /\ status = "EXIT_FAILURE" /\ roundoff > 0
  /\ ~RateReported

\* sums of w(ii,jj)*F over all offsets, F being 1, ii or jj
WeightSum(w, R)  == Sum([jj \in Offsets(R) |-> Sum([ii \in Offsets(R) |-> w[<<ii, jj>>]], 0 - R, R)], 0 - R, R)

WeightSumI(w, R) == Sum([jj \in Offsets(R) |-> Sum([ii \in Offsets(R) |-> w[<<ii, jj>>] * ii], 0 - R, R)], 0 - R, R)

WeightSumJ(w, R) == Sum([jj \in Offsets(R) |-> Sum([ii \in Offsets(R) |-> w[<<ii, jj>>] * jj], 0 - R, R)], 0 - R, R)

\* C5: for every radius and both shapes the weights sum to 0 and their first
\* moments in ii and in jj are 1 (expand for the scaled table); one pass of
\* the stencil over the field a*i + b*j + c leaves a+b at every interior
\* point of the background grid, and the scaled table leaves a+b on the
\* field sampled at spacing hr = 1/expand.
C5_LinearResponse ==
  /\ pc \in {"init", "applied"} =>
       /\ WeightSum(weight, cfg.RADIUS) = 0
       /\ WeightSumI(weight, cfg.RADIUS) = WDen(cfg.RADIUS)
       /\ WeightSumJ(weight, cfg.RADIUS) = WDen(cfg.RADIUS)
       /\ WeightSum(weight_r, cfg.RADIUS) = 0
       /\ WeightSumI(weight_r, cfg.RADIUS) = expand * WDen(cfg.RADIUS)
       /\ WeightSumJ(weight_r, cfg.RADIUS) = expand * WDen(cfg.RADIUS)
  /\ pc = "applied" =>
       /\ \A k \in InteriorCells(cfg.n, cfg.RADIUS) :
             out[k] = (cfg.a + cfg.b) * WDen(cfg.RADIUS)
       /\ \A k \in InteriorCells(nr_true, cfg.RADIUS) :
             outr[k] = (cfg.a + cfg.b) * WDen(cfg.RADIUS) * expand * expand

C5_Witness ==
  /\ pc = "applied" /\ ~cfg.STAR /\ cfg.RADIUS = MaxRadius /\ expand > 1
  /\ cfg.a > 0 /\ cfg.b = 0 /\ cfg.c < 0
  /\ \A k \in InteriorCells(nr_true, cfg.RADIUS) :
        outr[k] = cfg.a * WDen(cfg.RADIUS) * expand * expand

\* interpolate has run for corner g on the background cfg.bg
Interpolated == pc = "refine" /\ g = Owner(iter, cfg.period)

PatchCell(ir, jr) == inr[PatchBase(g, nr_true) + Idx(ir, jr, nr_true)]

\* C7: with expand = 1, after interpolate for corner g every patch cell
\* (ir,jr) equals background(ir+rstarti[g], jr+rstartj[g]), the background
\* buffer is as it was, and so are the other three patches.
C7_ExactCopy ==
  (Interpolated /\ expand = 1) =>
     /\ \A ir, jr \in 0 .. (nr_true - 1) :
           PatchCell(ir, jr) = cfg.bg[Idx(ir + rstarti[g], jr + rstartj[g], cfg.n)]
     /\ in = cfg.bg
     /\ \A h \in Corners \ {g} : \A k \in Cells(nr_true) :
           inr[PatchBase(h, nr_true) + k] = Stale

C7_Witness ==
  /\ Interpolated /\ expand = 1 /\ g = 3 /\ rstarti[g] > 0
  /\ \E ir, jr \in 0 .. (nr_true - 1) : PatchCell(ir, jr) > 0
  /\ \E ir, jr \in 0 .. (nr_true - 1) : PatchCell(ir, jr) = 0

\* background value at (i,j), 0 where the weight of the cell is 0
BgOrZero(i, j, wt) == IF wt = 0 THEN 0 ELSE wt * cfg.bg[Idx(i, j, cfg.n)]

\* e*e times the bilinear interpolant of the background at the coarse
\* coordinate (rstarti + ir/e, rstartj + jr/e)
Bilinear(ir, jr, rsi, rsj, e) ==
  LET i0 == rsi + ir \div e
      j0 == rsj + jr \div e
      fx == ir % e
      fy == jr % e
  IN    BgOrZero(i0, j0, (e - fx) * (e - fy)) + BgOrZero(i0 + 1, j0, fx * (e - fy))
      + BgOrZero(i0, j0 + 1, (e - fx) * fy)   + BgOrZero(i0 + 1, j0 + 1, fx * fy)

\* C10: with expand > 1, after interpolate for corner g every patch cell has
\* been overwritten and holds the bilinear interpolant of the background at
\* (rstarti + hr*ir, rstartj + hr*jr); the cells with ir and jr multiples of
\* expand hold background(rstarti + ir/expand, rstartj + jr/expand), the
\* last row and column included.
C10_Bilinear ==
  (Interpolated /\ expand > 1) =>
     \A ir, jr \in 0 .. (nr_true - 1) :
        /\ PatchCell(ir, jr) # Stale
        /\ PatchCell(ir, jr) = Bilinear(ir, jr, rstarti[g], rstartj[g], expand)
        /\ (ir % expand = 0 /\ jr % expand = 0) =>
              PatchCell(ir, jr)
                = expand * expand
                  * cfg.bg[Idx(rstarti[g] + ir \div expand, rstartj[g] + jr \div expand, cfg.n)]

C10_Witness ==
  /\ Interpolated /\ expand > 1 /\ g = 1
  /\ PatchCell(nr_true - 1, nr_true - 1) = expand * expand * MaxVal
  /\ \E ir, jr \in 0 .. (nr_true - 1) :
        /\ ir % expand # 0 /\ jr % expand # 0
        /\ PatchCell(ir, jr) > 0 /\ PatchCell(ir, jr) < expand * expand * MaxVal

\* the flop count has been computed from the counts in iterations_r
FlopsCounted == pc = "exit" /\ allocated /\ RateReported

\* C11: the per-corner counts entering the flop total equal the stencil
\* passes each corner received during the timed iterations iter = 1 ..
\* iterations, for every valid configuration, sub_iterations > 1 included.
C11_TimedCounts ==
  FlopsCounted => \A h \in Corners : iterations_r[h] = ntimed[h]

\* what lines 565-566 count instead: corner 0 enters with one pass removed,
\* while iteration 0 gave it sub_iterations passes; the other corners enter
\* with their timed passes.
C11_CountsUsed ==
  FlopsCounted =>
    /\ iterations_r[0] = ntimed[0] + cfg.sub_iterations - 1
    /\ \A h \in 1 .. 3 : iterations_r[h] = ntimed[h]
    /\ napplied[0] = ntimed[0] + cfg.sub_iterations

C11_Witness ==
  /\ FlopsCounted /\ cfg.sub_iterations > 1
  /\ iterations_r[0] > ntimed[0] /\ ntimed[0] > 0

\* the star weight table has been built
StarBuilt == pc \in {"init", "applied"} /\ cfg.STAR

\* the entries of the weight table that are not zero
Nonzero(w) == {p \in DOMAIN w : w[p] # 0}

\* C12 as the specification states it: the star weight table has 4*RADIUS+1
\* nonzero entries, the value used as stencil_size.
C12_NonzeroCount ==
  StarBuilt =>
    /\ Cardinality(Nonzero(weight)) = 4 * cfg.RADIUS + 1
    /\ Cardinality(Nonzero(weight)) = stencil_size

\* C12, amended: the star weight table is zero off the centre row and
\* centre column and at the centre itself; w(k,0) = w(0,k) = 1/(2*k*RADIUS)
\* and w(-k,0) = w(0,-k) = -1/(2*k*RADIUS) for k = 1..RADIUS; it has
\* 4*RADIUS nonzero entries, and stencil_size = 4*RADIUS+1 counts the points
\* of the stencil, the centre with its zero weight included.
C12_StarTable ==
  StarBuilt =>
    /\ \A p \in DOMAIN weight : (p[1] # 0 /\ p[2] # 0) => weight[p] = 0
    /\ weight[<<0, 0>>] = 0
    /\ \A k \in 1 .. cfg.RADIUS :
          /\ weight[<<k, 0>>] * (2 * k * cfg.RADIUS) = WDen(cfg.RADIUS)
          /\ weight[<<0, k>>] = weight[<<k, 0>>]
          /\ weight[<<0 - k, 0>>] = 0 - weight[<<k, 0>>]
          /\ weight[<<0, 0 - k>>] = 0 - weight[<<k, 0>>]
    /\ Cardinality(Nonzero(weight)) = 4 * cfg.RADIUS
    /\ stencil_size = 4 * cfg.RADIUS + 1
    /\ stencil_size = Cardinality(Nonzero(weight) \cup {<<0, 0>>})

C12_Witness ==
  /\ StarBuilt /\ pc = "init" /\ cfg.RADIUS = MaxRadius
  /\ stencil_size = 4 * MaxRadius + 1
  /\ Cardinality(Nonzero(weight)) = 4 * MaxRadius

(***************************************************************************)
(* The cells the code touches, as pairs <<i, j>> of the indices it passes  *)
(* to the macros IN, INRG, INR, OUT and OUTR.                              *)
(***************************************************************************)
\* for (jr=0,jb=rstartj; jr<nr_true; jr+=expand,jb++): the values jr takes
XRows(nrt, e) == {jr \in 0 .. (nrt - 1) : jr % e = 0}

\* ib = (long)xr with xr = rstarti+hr*ir, lines 107-108
IbOf(rsi, e, ir) == (rsi * e + ir) \div e

\* IN(ir+rstarti,jr+rstartj) of line 99
CopyReads(nrt, rsi, rsj) ==
  {<<ir + rsi, jr + rsj>> : ir \in 0 .. (nrt - 1), jr \in 0 .. (nrt - 1)}

\* mutant of XPassReads: the ir loop runs while ir<nr_true
XPassReadsLate(nrt, rsi, rsj, e) ==
  UNION {{<<IbOf(rsi, e, ir) + 1, rsj + (jr \div e)>>,
          <<IbOf(rsi, e, ir), rsj + (jr \div e)>>} :
           ir \in 0 .. (nrt - 1), jr \in XRows(nrt, e)}

\* IN(ib+1,jb) and IN(ib,jb) of line 110, IN(rendi,jb) of line 112
XPassReads(nrt, rsi, rsj, e) ==
  UNION {{<<IbOf(rsi, e, ir) + 1, rsj + (jr \div e)>>,
          <<IbOf(rsi, e, ir), rsj + (jr \div e)>>,
          <<rsi + ((nrt - 1) \div e), rsj + (jr \div e)>>} :
           ir \in 0 .. (nrt - 2), jr \in XRows(nrt, e)}

\* the background cells interpolate reads
InterpReads(nrt, rsi, rsj, e) ==
  IF e = 1 THEN CopyReads(nrt, rsi, rsj) ELSE XPassReads(nrt, rsi, rsj, e)

\* INRG(ir,jr) of lines 110 and 112
XPassWrites(nrt, e) ==
  {<<ir, jr>> : ir \in 0 .. (nrt - 1), jr \in XRows(nrt, e)}

\* INRG(ir,jr), INRG(ir,jrb1) and INRG(ir,jrb) of line 123
YPassTouches(nrt, e) ==
  UNION {{<<ir, jr>>, <<ir, ((jr \div e) + 1) * e>>, <<ir, (jr \div e) * e>>} :
           ir \in 0 .. (nrt - 1), jr \in 0 .. (nrt - 2)}

\* the patch cells interpolate reads or writes
InterpTouches(nrt, e) ==
  IF e = 1
  THEN {<<ir, jr>> : ir \in 0 .. (nrt - 1), jr \in 0 .. (nrt - 1)}
  ELSE XPassWrites(nrt, e) \cup YPassTouches(nrt, e)

\* the offsets <<ii, jj>> the loop body adds to (i,j)
BodyOffsets(R, star) ==
  IF star
  THEN {<<0, jj>> : jj \in Offsets(R)} \cup {<<ii, 0>> : ii \in Offsets(R) \ {0}}
  ELSE Offsets(R) \X Offsets(R)

\* the points (i,j) at which one pass of the loop nest runs the body
Visited(S, R, tiled, t) ==
  {c \in (0 .. (S - 1)) \X (0 .. (S - 1)) : Visits(S, R, tiled, t, c[1], c[2]) > 0}

\* the cells one pass of the loop nest reads (input buffer) or writes
\* (output buffer) on a grid of side S
StencilTouches(S, R, star, tiled, t) ==
  UNION {{<<c[1] + d[1], c[2] + d[2]>> : d \in BodyOffsets(R, star)} \cup {c} :
           c \in Visited(S, R, tiled, t)}

\* every pair of P indexes a cell of a grid of side S
InGrid(P, S) == \A p \in P : p[1] \in 0 .. (S - 1) /\ p[2] \in 0 .. (S - 1)

\* the refinement layout of lines 356-359 has been computed
LaidOut == allocated /\ (InLoop \/ NormsDone)

\* C13: in every valid configuration and for every corner, interpolate
\* reads background cells only in [0,n) x [0,n) and touches patch cells only
\* in [0,nr_true) x [0,nr_true), and every stencil pass, on the background
\* grid and on a refinement, touches only cells of its grid.
C13_InBounds ==
  LaidOut =>
    /\ \A h \in Corners :
          /\ rstarti[h] >= 0 /\ rstartj[h] >= 0
          /\ InGrid(InterpReads(nr_true, rstarti[h], rstartj[h], expand), cfg.n)
    /\ InGrid(InterpTouches(nr_true, expand), nr_true)
    /\ InGrid(StencilTouches(cfg.n, cfg.RADIUS, cfg.STAR, tiling, tile_size), cfg.n)
    /\ InGrid(StencilTouches(nr_true, cfg.RADIUS, cfg.STAR, tiling, tile_size), nr_true)

C13_Witness ==
  /\ pc = "background" /\ g = 1 /\ expand > 1 /\ tiling /\ ~cfg.STAR
  /\ cfg.RADIUS = MaxRadius /\ napplied[1] > 0
  /\ <<cfg.n - 1, cfg.n - 1>> \in InterpReads(nr_true, rstarti[1], rstartj[1], expand)
  /\ <<nr_true - 1, nr_true - 1>> \in InterpTouches(nr_true, expand)
  /\ <<0, 0>> \in StencilTouches(nr_true, cfg.RADIUS, cfg.STAR, tiling, tile_size)
  /\ <<cfg.n - 1, cfg.n - 1>>
        \in StencilTouches(cfg.n, cfg.RADIUS, cfg.STAR, tiling, tile_size)

====
